---------------------------- MODULE Spec2Model ----------------------------
(***************************************************************************)
(* Model of server.py, the user segmentation server.                       *)
(*                                                                         *)
(* A request carries a user document and an ordered mapping of segment     *)
(* names to rule texts.  evaluate_segments validates the document and then *)
(* evaluates the rules one after the other; evaluate_condition works on the *)
(* TEXT of a rule with regular expressions, so rule texts are modelled as  *)
(* sequences of one-character strings and every regular expression of the  *)
(* source is modelled by an operator that matches the way `re` matches.    *)
(* The only white-space character of the model is the blank.              *)
(***************************************************************************)
EXTENDS Integers, Sequences, FiniteSets, TLC

(***************************************************************************)
(* Characters and text helpers                                             *)
(***************************************************************************)
Digits == <<"0", "1", "2", "3", "4", "5", "6", "7", "8", "9">>

DigitChars == {Digits[i] : i \in 1..10}

LowerChars ==
    {"a", "b", "c", "d", "e", "f", "g", "h", "i", "j", "k", "l", "m",
     "n", "o", "p", "q", "r", "s", "t", "u", "v", "w", "x", "y", "z"}

UpperChars ==
    {"A", "B", "C", "D", "E", "F", "G", "H", "I", "J", "K", "L", "M",
     "N", "O", "P", "Q", "R", "S", "T", "U", "V", "W", "X", "Y", "Z"}

\* str.lower on one character (re.IGNORECASE compares lowered characters)
Lower(c) ==
    CASE c = "A" -> "a" [] c = "B" -> "b" [] c = "C" -> "c" [] c = "D" -> "d"
      [] c = "E" -> "e" [] c = "F" -> "f" [] c = "G" -> "g" [] c = "H" -> "h"
      [] c = "I" -> "i" [] c = "J" -> "j" [] c = "K" -> "k" [] c = "L" -> "l"
      [] c = "M" -> "m" [] c = "N" -> "n" [] c = "O" -> "o" [] c = "P" -> "p"
      [] c = "Q" -> "q" [] c = "R" -> "r" [] c = "S" -> "s" [] c = "T" -> "t"
      [] c = "U" -> "u" [] c = "V" -> "v" [] c = "W" -> "w" [] c = "X" -> "x"
      [] c = "Y" -> "y" [] c = "Z" -> "z" [] OTHER -> c

\* the class \d
IsDigit(c) == c \in DigitChars

\* the class \w
IsWord(c) == c \in LowerChars \cup UpperChars \cup DigitChars \cup {"_"}

\* the class \s
IsSpace(c) == c = " "

DigitVal(c) == CHOOSE i \in 0..9 : Digits[i + 1] = c

\* s[i:j] of Python with 1-based inclusive positions; empty when j < i
Slice(s, i, j) == IF j < i THEN <<>> ELSE SubSeq(s, i, j)

\* s[i:] with a 1-based position
From(s, i) == Slice(s, i, Len(s))

\* str.strip()
Strip(s) ==
    LET keep == {i \in 1..Len(s) : ~IsSpace(s[i])}
    IN  IF keep = {} THEN <<>>
        ELSE LET lo == CHOOSE i \in keep : \A j \in keep : i <= j
                 hi == CHOOSE i \in keep : \A j \in keep : j <= i
             IN  SubSeq(s, lo, hi)

\* str.strip("'\"") : removes quote characters at both ends
StripQuotes(s) ==
    LET keep == {i \in 1..Len(s) : s[i] \notin {"'", "\""}}
    IN  IF keep = {} THEN <<>>
        ELSE LET lo == CHOOSE i \in keep : \A j \in keep : i <= j
                 hi == CHOOSE i \in keep : \A j \in keep : j <= i
             IN  SubSeq(s, lo, hi)

\* the literal lit occurs in s at position i (compared in lower case when ci)
MatchAt(s, i, lit, ci) ==
    /\ i >= 1
    /\ i + Len(lit) - 1 <= Len(s)
    /\ \A k \in 1..Len(lit) :
          IF ci THEN Lower(s[i + k - 1]) = Lower(lit[k])
                ELSE s[i + k - 1] = lit[k]

\* the assertion \b between s[i] and s[i+1] (i = 0 and i = Len(s) are the ends)
Boundary(s, i) ==
    LET l == i >= 1 /\ i <= Len(s) /\ IsWord(s[i])
        r == i + 1 >= 1 /\ i + 1 <= Len(s) /\ IsWord(s[i + 1])
    IN  l # r

\* \bkw\b matches in s at position i, case-insensitively
KeywordAt(s, i, kw) ==
    /\ MatchAt(s, i, kw, TRUE)
    /\ Boundary(s, i - 1)
    /\ Boundary(s, i + Len(kw) - 1)

\* number of leading white-space characters of s from position i on
RECURSIVE SpaceRun(_, _)
SpaceRun(s, i) ==
    IF i <= Len(s) /\ IsSpace(s[i]) THEN 1 + SpaceRun(s, i + 1) ELSE 0

\* length of the longest run of \w characters of s from position i on
RECURSIVE WordRun(_, _)
WordRun(s, i) ==
    IF i <= Len(s) /\ IsWord(s[i]) THEN 1 + WordRun(s, i + 1) ELSE 0

\* length of the longest run of digits of s from position i on
RECURSIVE DigitRun(_, _)
DigitRun(s, i) ==
    IF i <= Len(s) /\ IsDigit(s[i]) THEN 1 + DigitRun(s, i + 1) ELSE 0

\* the number of occurrences of the character c in s : str.count(c)
Count(s, c) == Cardinality({i \in 1..Len(s) : s[i] = c})

\* str(n) for a natural number n
RECURSIVE Str(_)
Str(n) ==
    IF n < 10 THEN <<Digits[n + 1]>>
    ELSE Append(Str(n \div 10), Digits[(n % 10) + 1])

\* re.sub(r'_now\(\)', repl, s)
NowToken == <<"_", "n", "o", "w", "(", ")">>

RECURSIVE SubNow(_, _, _)
SubNow(s, repl, i) ==
    IF i > Len(s) THEN <<>>
    ELSE IF MatchAt(s, i, NowToken, FALSE)
         THEN repl \o SubNow(s, repl, i + Len(NowToken))
         ELSE <<s[i]>> \o SubNow(s, repl, i + 1)

\* re.split(r'\bkw\b', s, flags=re.IGNORECASE) : the parts between the matches
RECURSIVE SplitFrom(_, _, _, _)
SplitFrom(s, kw, i, start) ==
    IF i > Len(s) THEN <<Slice(s, start, Len(s))>>
    ELSE IF KeywordAt(s, i, kw)
         THEN <<Slice(s, start, i - 1)>>
                 \o SplitFrom(s, kw, i + Len(kw), i + Len(kw))
         ELSE SplitFrom(s, kw, i + 1, start)

SplitKeyword(s, kw) == SplitFrom(s, kw, 1, 1)

(***************************************************************************)
(* Field tables                                                            *)
(***************************************************************************)
F_id == <<"i", "d">>

F_level == <<"l", "e", "v", "e", "l">>

F_country == <<"c", "o", "u", "n", "t", "r", "y">>

F_first_session ==
    <<"f", "i", "r", "s", "t", "_", "s", "e", "s", "s", "i", "o", "n">>

F_last_session ==
    <<"l", "a", "s", "t", "_", "s", "e", "s", "s", "i", "o", "n">>

F_purchase_amount ==
    <<"p", "u", "r", "c", "h", "a", "s", "e", "_", "a", "m", "o", "u", "n", "t">>

F_last_purchase_at ==
    <<"l", "a", "s", "t", "_", "p", "u", "r", "c", "h", "a", "s", "e", "_", "a", "t">>

STRING_FIELDS == {F_id, F_country}

NUMERIC_FIELDS ==
    {F_level, F_first_session, F_last_session, F_purchase_amount,
     F_last_purchase_at}

VALID_FIELDS == STRING_FIELDS \cup NUMERIC_FIELDS

\* required_fields of validate_user_document, in the order of the list
required_fields ==
    <<F_id, F_level, F_country, F_first_session, F_last_session,
      F_purchase_amount, F_last_purchase_at>>

(***************************************************************************)
(* Values of a JSON document.  t is the Python type of the decoded value: *)
(* "str" (v a text), "int" (v an integer), "bool" (v a BOOLEAN), "float"   *)
(* (v the integer part, the value is v + 1/2) and "null" (None).           *)
(***************************************************************************)
StrV(s) == [t |-> "str", v |-> s]

IntV(n) == [t |-> "int", v |-> n]

BoolV(b) == [t |-> "bool", v |-> b]

FloatV(n) == [t |-> "float", v |-> n]

NullV == [t |-> "null", v |-> 0]

\* isinstance(value, int) : bool is a subclass of int in Python
IsInstanceInt(val) == val.t \in {"int", "bool"}

\* isinstance(value, str)
IsInstanceStr(val) == val.t = "str"

\* the integer a value of type int or bool compares as (True is 1, False is 0)
AsInt(val) == IF val.t = "bool" THEN (IF val.v THEN 1 ELSE 0) ELSE val.v

\* a document is the ordered list of the (key, value) pairs of a JSON object
Keys(doc) == {doc[i].k : i \in 1..Len(doc)}

\* user[field] : the value stored under a key that is present
Get(doc, key) == doc[CHOOSE i \in 1..Len(doc) : doc[i].k = key].v

(***************************************************************************)
(* validate_user_document                                                  *)
(***************************************************************************)
NoField == <<>>

Valid == [ok |-> TRUE, msg |-> "", field |-> NoField]

Invalid(m, f) == [ok |-> FALSE, msg |-> m, field |-> f]

\* the checks the second loop makes on one (field, value) pair
CheckField(field, value) ==
    IF value.t = "null" THEN Invalid("cannot be null", field)
    ELSE IF field \in STRING_FIELDS /\ ~IsInstanceStr(value)
         THEN Invalid("must be a string", field)
    ELSE IF field \in STRING_FIELDS /\ value.v = <<>>
         THEN Invalid("cannot be empty", field)
    ELSE IF field \in NUMERIC_FIELDS /\ ~IsInstanceInt(value)
         THEN Invalid("must be an integer", field)
    ELSE IF field \in NUMERIC_FIELDS /\ AsInt(value) < 0
         THEN Invalid("must be non-negative", field)
    ELSE Valid

validate_user_document(user) ==
    LET missing == {i \in 1..Len(required_fields) :
                        required_fields[i] \notin Keys(user)}
        bad == {i \in 1..Len(user) : ~CheckField(user[i].k, user[i].v).ok}
    IN  IF missing # {}
        THEN Invalid("Missing required field",
                     required_fields[CHOOSE i \in missing :
                                         \A j \in missing : i <= j])
        ELSE IF bad # {}
        THEN LET i == CHOOSE i \in bad : \A j \in bad : i <= j
             IN  CheckField(user[i].k, user[i].v)
        ELSE Valid

(***************************************************************************)
(* extract_fields_from_condition                                           *)
(***************************************************************************)
\* position of the first quote after position i, 0 when there is none
RECURSIVE NextQuote(_, _)
NextQuote(s, i) ==
    IF i + 1 > Len(s) THEN 0
    ELSE IF s[i + 1] = "'" THEN i + 1 ELSE NextQuote(s, i + 1)

\* re.sub(r"'[^']*'", '', s)
RECURSIVE SubQuoted(_, _)
SubQuoted(s, i) ==
    IF i > Len(s) THEN <<>>
    ELSE IF s[i] = "'" /\ NextQuote(s, i) # 0
         THEN SubQuoted(s, NextQuote(s, i) + 1)
         ELSE <<s[i]>> \o SubQuoted(s, i + 1)

\* re.sub(r'\b\d+\b', '', s)
RECURSIVE SubNumbers(_, _)
SubNumbers(s, i) ==
    IF i > Len(s) THEN <<>>
    ELSE IF /\ IsDigit(s[i])
            /\ Boundary(s, i - 1)
            /\ Boundary(s, i + DigitRun(s, i) - 1)
         THEN SubNumbers(s, i + DigitRun(s, i))
         ELSE <<s[i]>> \o SubNumbers(s, i + 1)

\* re.sub(r'\b' + keyword + r'\b', '', s, flags=re.IGNORECASE)
RECURSIVE SubKeyword(_, _, _)
SubKeyword(s, kw, i) ==
    IF i > Len(s) THEN <<>>
    ELSE IF KeywordAt(s, i, kw)
         THEN SubKeyword(s, kw, i + Len(kw))
         ELSE <<s[i]>> \o SubKeyword(s, kw, i + 1)

sql_keywords ==
    << <<"a", "n", "d">>, <<"o", "r">>, <<"n", "o", "t">>, <<"i", "n">>,
       <<"b", "e", "t", "w", "e", "e", "n">>, <<"l", "i", "k", "e">> >>

\* the loop over sql_keywords, from the k-th keyword on
RECURSIVE SubKeywords(_, _)
SubKeywords(s, k) ==
    IF k > Len(sql_keywords) THEN s
    ELSE SubKeywords(SubKeyword(s, sql_keywords[k], 1), k + 1)

OperatorChars == {"<", ">", "=", "!", "(", ")", "*", "/", "+", "-", ","}

\* re.sub(r'[<>=!()*/+\-,]', ' ', s)
SubOperators(s) ==
    [i \in 1..Len(s) |-> IF s[i] \in OperatorChars THEN " " ELSE s[i]]

\* number of characters before the next white space, from position i on
RECURSIVE TokenRun(_, _)
TokenRun(s, i) ==
    IF i <= Len(s) /\ ~IsSpace(s[i]) THEN 1 + TokenRun(s, i + 1) ELSE 0

\* the set of the tokens of s.split()
RECURSIVE Tokens(_, _)
Tokens(s, i) ==
    IF i > Len(s) THEN {}
    ELSE IF IsSpace(s[i]) THEN Tokens(s, i + 1)
         ELSE {SubSeq(s, i, i + TokenRun(s, i) - 1)}
                 \cup Tokens(s, i + TokenRun(s, i))

\* str.isidentifier() on text of the model's alphabet
IsIdentifier(tok) ==
    /\ tok # <<>>
    /\ ~IsDigit(tok[1])
    /\ \A i \in 1..Len(tok) : IsWord(tok[i])

extract_fields_from_condition(condition) ==
    LET t1 == SubNow(condition, <<>>, 1)
        t2 == SubQuoted(t1, 1)
        t3 == SubNumbers(t2, 1)
        t4 == SubKeywords(t3, 1)
        t5 == SubOperators(t4)
    IN  {tok \in Tokens(t5, 1) : IsIdentifier(tok)}

(***************************************************************************)
(* validate_sql_syntax                                                     *)
(***************************************************************************)
\* re.search(r'[<>]=?[<>]|===|!==', s)
InvalidOperatorAt(s, i) ==
    \/ /\ s[i] \in {"<", ">"}
       /\ \/ i + 1 <= Len(s) /\ s[i + 1] \in {"<", ">"}
          \/ i + 2 <= Len(s) /\ s[i + 1] = "=" /\ s[i + 2] \in {"<", ">"}
    \/ MatchAt(s, i, <<"=", "=", "=">>, FALSE)
    \/ MatchAt(s, i, <<"!", "=", "=">>, FALSE)

\* "" when the condition passes, else the message of the ValueError raised
validate_sql_syntax(condition) ==
    IF Count(condition, "(") # Count(condition, ")")
    THEN "Unbalanced parentheses in SQL condition"
    ELSE IF \E i \in 1..Len(condition) : InvalidOperatorAt(condition, i)
    THEN "Invalid SQL operator syntax"
    ELSE IF Strip(condition) = <<>>
    THEN "Empty SQL condition"
    ELSE ""

(***************************************************************************)
(* Outcome of a call: a returned value, or the exception it raised.        *)
(* atoms counts the calls of parse_comparison made before the outcome;     *)
(* fields is the payload of the unknown-field error.                       *)
(***************************************************************************)
Ok(v, n) ==
    [ok |-> TRUE, val |-> v, exc |-> "", msg |-> "", fields |-> {}, atoms |-> n]

Raise(e, m, n) ==
    [ok |-> FALSE, val |-> FALSE, exc |-> e, msg |-> m, fields |-> {},
     atoms |-> n]

RaiseFields(fs) ==
    [ok |-> FALSE, val |-> FALSE, exc |-> "ValueError",
     msg |-> "Unknown fields in segment rule", fields |-> fs, atoms |-> 0]

(***************************************************************************)
(* eval_expression.  The built-in eval is modelled on the arithmetic of    *)
(* Python restricted to decimal literals, unary and binary + and -, *, the *)
(* true division / and parentheses; the operators ** and // are outside    *)
(* the model and no rule text of the model uses them.  A value is the      *)
(* fraction n/d with d > 0, so that int() truncates the final value only.  *)
(***************************************************************************)
Num(a, b, p) == [ok |-> TRUE, n |-> a, d |-> b, pos |-> p, err |-> ""]

NumErr(e) == [ok |-> FALSE, n |-> 0, d |-> 1, pos |-> 0, err |-> e]

\* the value of the decimal literal s[i .. i+len-1]
RECURSIVE Decimal(_, _, _)
Decimal(s, i, len) ==
    IF len = 0 THEN 0
    ELSE 10 * Decimal(s, i, len - 1) + DigitVal(s[i + len - 1])

\* Python rejects a literal with a leading zero unless it is all zeros
LeadingZero(s, i, len) ==
    /\ len > 1
    /\ s[i] = "0"
    /\ \E k \in i..(i + len - 1) : s[k] # "0"

RECURSIVE ParseSum(_, _), SumRest(_, _), SumStep(_, _, _), ParseTerm(_, _), TermRest(_, _), TermStep(_, _, _), ParseFactor(_, _)
\* the value r with its sign changed
Negated(r) == IF r.ok THEN Num(0 - r.n, r.d, r.pos) ELSE r

\* the value r of a parenthesized sum, which must end at a ")"
Closed(s, r) ==
    IF ~r.ok THEN r
    ELSE IF r.pos <= Len(s) /\ s[r.pos] = ")" THEN Num(r.n, r.d, r.pos + 1)
    ELSE NumErr("invalid syntax")

\* the decimal literal of len digits at position i
Literal(s, i, len) ==
    IF LeadingZero(s, i, len) THEN NumErr("leading zeros")
    ELSE Num(Decimal(s, i, len), 1, i + len)

\* factor: ('+' | '-') factor | NUMBER | '(' sum ')'
ParseFactor(s, i) ==
    IF i > Len(s) THEN NumErr("invalid syntax")
    ELSE IF s[i] = "-" THEN Negated(ParseFactor(s, i + 1))
    ELSE IF s[i] = "+" THEN ParseFactor(s, i + 1)
    ELSE IF s[i] = "(" THEN Closed(s, ParseSum(s, i + 1))
    ELSE IF IsDigit(s[i]) THEN Literal(s, i, DigitRun(s, i))
    ELSE NumErr("invalid syntax")

\* acc * r or acc / r, r being the factor after the operator at acc.pos
TermStep(s, acc, r) ==
    IF ~r.ok THEN r
    ELSE IF s[acc.pos] = "*"
         THEN TermRest(s, Num(acc.n * r.n, acc.d * r.d, r.pos))
    ELSE IF r.n = 0 THEN NumErr("division by zero")
    ELSE IF r.n > 0
         THEN TermRest(s, Num(acc.n * r.d, acc.d * r.n, r.pos))
    ELSE TermRest(s, Num(0 - acc.n * r.d, 0 - acc.d * r.n, r.pos))

\* the ('*' | '/') factor repetitions after the value acc
TermRest(s, acc) ==
    IF ~acc.ok THEN acc
    ELSE IF acc.pos > Len(s) THEN acc
    ELSE IF s[acc.pos] \notin {"*", "/"} THEN acc
    ELSE TermStep(s, acc, ParseFactor(s, acc.pos + 1))

ParseTerm(s, i) == TermRest(s, ParseFactor(s, i))

\* acc + r or acc - r, r being the term after the operator at acc.pos
SumStep(s, acc, r) ==
    IF ~r.ok THEN r
    ELSE IF s[acc.pos] = "+"
         THEN SumRest(s, Num(acc.n * r.d + r.n * acc.d, acc.d * r.d, r.pos))
         ELSE SumRest(s, Num(acc.n * r.d - r.n * acc.d, acc.d * r.d, r.pos))

\* the ('+' | '-') term repetitions after the value acc
SumRest(s, acc) ==
    IF ~acc.ok THEN acc
    ELSE IF acc.pos > Len(s) THEN acc
    ELSE IF s[acc.pos] \notin {"+", "-"} THEN acc
    ELSE SumStep(s, acc, ParseTerm(s, acc.pos + 1))

ParseSum(s, i) == SumRest(s, ParseTerm(s, i))

\* int(x) : truncation toward zero
Trunc(n, d) == IF n >= 0 THEN n \div d ELSE 0 - ((0 - n) \div d)

\* int(x) of the value r of the whole text s, or the error eval raises
Whole(s, r) ==
    IF ~r.ok THEN r
    ELSE IF r.pos # Len(s) + 1 THEN NumErr("invalid syntax")
    ELSE Num(Trunc(r.n, r.d), 1, r.pos)

\* int(eval(expression)) : the integer, or the error eval or int raises
PyEval(s) == Whole(s, ParseSum(s, 1))

ArithChars == DigitChars \cup {"+", "-", "*", "/", "(", ")", " "}

\* str.replace(' ', '')
RemoveSpaces(s) == SelectSeq(s, LAMBDA c : ~IsSpace(c))

\* the try block: the integer, or the ValueError raised for the error of eval
Evaluated(r) ==
    IF r.ok THEN Ok(r.n, 0)
    ELSE Raise("ValueError", "Error evaluating expression", 0)

\* eval_expression on the text e, stripped and without blanks
EvalChecked(e) ==
    IF e = <<>> \/ \E i \in 1..Len(e) : e[i] \notin ArithChars
    THEN Raise("ValueError", "Invalid expression", 0)
    ELSE Evaluated(PyEval(e))

eval_expression(expression) == EvalChecked(RemoveSpaces(Strip(expression)))

(***************************************************************************)
(* Comparison of Python values                                             *)
(***************************************************************************)
\* the characters of the model in the order of their code points
CodeOrder ==
    <<" ", "!", "\"", "%", "'", "(", ")", "*", "+", ",", "-", ".", "/",
      "0", "1", "2", "3", "4", "5", "6", "7", "8", "9", "<", "=", ">",
      "A", "B", "C", "D", "E", "F", "G", "H", "I", "J", "K", "L", "M",
      "N", "O", "P", "Q", "R", "S", "T", "U", "V", "W", "X", "Y", "Z", "_",
      "a", "b", "c", "d", "e", "f", "g", "h", "i", "j", "k", "l", "m",
      "n", "o", "p", "q", "r", "s", "t", "u", "v", "w", "x", "y", "z">>

Ord(c) == CHOOSE i \in 1..Len(CodeOrder) : CodeOrder[i] = c

\* a < b on str
RECURSIVE StrLess(_, _)
StrLess(a, b) ==
    IF b = <<>> THEN FALSE
    ELSE IF a = <<>> THEN TRUE
    ELSE IF a[1] # b[1] THEN Ord(a[1]) < Ord(b[1])
    ELSE StrLess(Tail(a), Tail(b))

IsNumber(val) == val.t \in {"int", "bool", "float"}

\* twice the numeric value, so that the model's floats (v + 1/2) stay integral
Twice(val) == IF val.t = "float" THEN 2 * val.v + 1 ELSE 2 * AsInt(val)

\* a == b
PyEq(a, b) ==
    IF a.t = "str" /\ b.t = "str" THEN a.v = b.v
    ELSE IF IsNumber(a) /\ IsNumber(b) THEN Twice(a) = Twice(b)
    ELSE FALSE

\* a < b is defined (it raises TypeError otherwise)
Ordered(a, b) ==
    \/ a.t = "str" /\ b.t = "str"
    \/ IsNumber(a) /\ IsNumber(b)

\* a < b where Ordered(a, b)
PyLess(a, b) ==
    IF a.t = "str" THEN StrLess(a.v, b.v) ELSE Twice(a) < Twice(b)

OP_LE == <<"<", "=">>

OP_GE == <<">", "=">>

OP_NE == <<"!", "=">>

OP_NE2 == <<"<", ">">>

OP_EQ == <<"=">>

OP_LT == <<"<">>

OP_GT == <<">">>

\* the alternatives of (<=|>=|!=|<>|=|<|>) in the order the pattern tries them
Operators == <<OP_LE, OP_GE, OP_NE, OP_NE2, OP_EQ, OP_LT, OP_GT>>

\* the if/elif chain at the end of parse_comparison
Compare(user_value, operator, compare_value, n) ==
    IF operator = OP_EQ THEN Ok(PyEq(user_value, compare_value), n)
    ELSE IF operator \in {OP_NE, OP_NE2}
         THEN Ok(~PyEq(user_value, compare_value), n)
    ELSE IF ~Ordered(user_value, compare_value)
         THEN Raise("TypeError", "not supported between instances", n)
    ELSE IF operator = OP_LT THEN Ok(PyLess(user_value, compare_value), n)
    ELSE IF operator = OP_GT THEN Ok(PyLess(compare_value, user_value), n)
    ELSE IF operator = OP_LE THEN Ok(~PyLess(compare_value, user_value), n)
    ELSE Ok(~PyLess(user_value, compare_value), n)

(***************************************************************************)
(* The patterns of parse_comparison.  Each operator returns the groups of  *)
(* the match of re.match (anchored at the start of the text), or          *)
(* [ok |-> FALSE] when the pattern does not match.                         *)
(***************************************************************************)
NoMatch == [ok |-> FALSE, g1 |-> <<>>, g2 |-> <<>>, g3 |-> <<>>]

Groups(a, b, c) == [ok |-> TRUE, g1 |-> a, g2 |-> b, g3 |-> c]

KW_and == <<"a", "n", "d">>

KW_or == <<"o", "r">>

KW_not == <<"n", "o", "t">>

KW_in == <<"i", "n">>

KW_between == <<"b", "e", "t", "w", "e", "e", "n">>

KW_like == <<"l", "i", "k", "e">>

\* (\w+)\s+kw\s+ matches at the start of c: the position after it, else 0
HeadEnd(c, kw) ==
    LET w == WordRun(c, 1)
        s1 == SpaceRun(c, w + 1)
        k == w + s1 + 1
        s2 == SpaceRun(c, k + Len(kw))
    IN  IF w >= 1 /\ s1 >= 1 /\ MatchAt(c, k, kw, TRUE) /\ s2 >= 1
        THEN k + Len(kw) + s2
        ELSE 0

\* \s+and\s+(.+) matches c from position i on: the start of the group, else 0
AndTail(c, i) ==
    LET s1 == SpaceRun(c, i)
        k == i + s1
        s2 == SpaceRun(c, k + Len(KW_and))
    IN  IF s1 >= 1 /\ MatchAt(c, k, KW_and, TRUE) /\ s2 >= 1
           /\ k + Len(KW_and) + 1 <= Len(c)
        THEN (IF k + Len(KW_and) + s2 <= Len(c)
                 THEN k + Len(KW_and) + s2
                 ELSE Len(c))
        ELSE 0

\* (\w+)\s+between\s+(.+?)\s+and\s+(.+) : \s+ is greedy and gives back blanks
\* only when no match exists otherwise, (.+?) takes the shortest text
BetweenMatch(c) ==
    LET h == HeadEnd(c, KW_between)
        first == h - SpaceRun(c, WordRun(c, 1) + SpaceRun(c, WordRun(c, 1) + 1)
                                    + Len(KW_between) + 1) + 1
        cand == {<<q, e>> \in (1..Len(c)) \X (1..Len(c)) :
                    /\ q >= first /\ q <= h /\ e >= q
                    /\ AndTail(c, e + 1) # 0}
    IN  IF h = 0 \/ cand = {} THEN NoMatch
        ELSE LET q == CHOOSE q \in {x[1] : x \in cand} :
                          \A y \in cand : y[1] <= q
                 e == CHOOSE e \in {x[2] : x \in {y \in cand : y[1] = q}} :
                          \A y \in cand : y[1] = q => e <= y[2]
             IN  Groups(SubSeq(c, 1, WordRun(c, 1)), SubSeq(c, q, e),
                        From(c, AndTail(c, e + 1)))

\* position of the first character ch of c at or after position i, else 0
RECURSIVE Find(_, _, _)
Find(c, ch, i) ==
    IF i > Len(c) THEN 0
    ELSE IF c[i] = ch THEN i ELSE Find(c, ch, i + 1)

\* (\w+)\s+in\s+\((.+?)\)
InMatch(c) ==
    LET h == HeadEnd(c, KW_in)
        close == Find(c, ")", h + 2)
    IN  IF h = 0 \/ h > Len(c) THEN NoMatch
        ELSE IF c[h] # "(" \/ close = 0 THEN NoMatch
        ELSE Groups(SubSeq(c, 1, WordRun(c, 1)), SubSeq(c, h + 1, close - 1),
                    <<>>)

\* (\w+)\s+like\s+'(.+?)'
LikeMatch(c) ==
    LET h == HeadEnd(c, KW_like)
        close == Find(c, "'", h + 2)
    IN  IF h = 0 \/ h > Len(c) THEN NoMatch
        ELSE IF c[h] # "'" \/ close = 0 THEN NoMatch
        ELSE Groups(SubSeq(c, 1, WordRun(c, 1)), SubSeq(c, h + 1, close - 1),
                    <<>>)

\* (\w+)\s*(<=|>=|!=|<>|=|<|>)\s*(.+) : the first alternative that leaves text
ComparisonMatch(c) ==
    LET w == WordRun(c, 1)
        k == w + SpaceRun(c, w + 1) + 1
        alts == {a \in 1..Len(Operators) :
                    /\ MatchAt(c, k, Operators[a], FALSE)
                    /\ k + Len(Operators[a]) <= Len(c)}
    IN  IF w = 0 \/ alts = {} THEN NoMatch
        ELSE LET a == CHOOSE a \in alts : \A b \in alts : a <= b
             IN  Groups(SubSeq(c, 1, w), Operators[a],
                        From(c, k + Len(Operators[a])))

(***************************************************************************)
(* Helpers of the IN and LIKE branches                                     *)
(***************************************************************************)
\* str.split(',') from position i on, start being the start of the current part
RECURSIVE SplitComma(_, _, _)
SplitComma(s, i, start) ==
    IF i > Len(s) THEN <<Slice(s, start, Len(s))>>
    ELSE IF s[i] = ","
         THEN <<Slice(s, start, i - 1)>> \o SplitComma(s, i + 1, i + 1)
         ELSE SplitComma(s, i + 1, start)

\* int(v) on text: blanks around an optionally signed run of digits
PyInt(v) ==
    LET t == Strip(v)
        signed == t # <<>> /\ t[1] \in {"+", "-"}
        digits == IF signed THEN Tail(t) ELSE t
    IN  IF digits = <<>> \/ DigitRun(digits, 1) # Len(digits)
        THEN Raise("ValueError", "invalid literal for int()", 0)
        ELSE IF signed /\ t[1] = "-"
             THEN Ok(0 - Decimal(digits, 1, Len(digits)), 0)
             ELSE Ok(Decimal(digits, 1, Len(digits)), 0)

\* str(value)
StrOf(val) ==
    IF val.t = "str" THEN val.v
    ELSE IF val.t = "bool"
         THEN (IF val.v THEN <<"T", "r", "u", "e">>
                        ELSE <<"F", "a", "l", "s", "e">>)
    ELSE IF val.t = "float"
         THEN Str(val.v) \o <<".", "5">>
    ELSE IF val.v < 0 THEN <<"-">> \o Str(0 - val.v)
    ELSE Str(val.v)

\* re.match('^' + pattern.replace('%', '.*').replace('_', '.') + '$', text),
\* for patterns whose other characters have no meaning in a regular expression
RECURSIVE Glob(_, _)
Glob(pat, text) ==
    IF pat = <<>> THEN text = <<>>
    ELSE IF pat[1] = "%"
         THEN Glob(Tail(pat), text) \/ (text # <<>> /\ Glob(pat, Tail(text)))
    ELSE IF text = <<>> THEN FALSE
    ELSE IF pat[1] = "_" THEN Glob(Tail(pat), Tail(text))
    ELSE pat[1] = text[1] /\ Glob(Tail(pat), Tail(text))

\* user[field] raises KeyError when the key is absent
RaiseKey(field, n) ==
    [ok |-> FALSE, val |-> FALSE, exc |-> "KeyError", msg |-> "KeyError",
     fields |-> {field}, atoms |-> n]

\* depth after the first j characters, in the loop of parse_comparison
Depth(c, j) ==
    Cardinality({i \in 1..j : c[i] = "("}) - Cardinality({i \in 1..j : c[i] = ")"})

\* the loop ends with i == len(condition) - 1 : it never breaks before the end
OuterParens(c) ==
    /\ c # <<>>
    /\ c[1] = "("
    /\ c[Len(c)] = ")"
    /\ \A j \in 1..(Len(c) - 1) : Depth(c, j) # 0

(***************************************************************************)
(* The recursive-descent evaluation of a rule text.  now is the value of   *)
(* int(time.time()) read by evaluate_condition; the call that              *)
(* parse_comparison makes for a parenthesized text reads the clock again,  *)
(* but its text holds no _now() any more, so the model passes now along.   *)
(***************************************************************************)
RECURSIVE evaluate_condition(_, _, _), parse_or_expression(_, _, _), parse_and_expression(_, _, _), parse_not_expression(_, _, _), parse_comparison(_, _, _), AnyPart(_, _, _, _), AllPart(_, _, _, _), InValues(_, _, _)

\* the outcome r, after n more calls of parse_comparison
AddAtoms(r, n) == [r EXCEPT !.atoms = @ + n]

\* values = [int(v) for v in values] from the k-th value on: the first error
InValues(field, values, k) ==
    IF k > Len(values) THEN Ok(TRUE, 0)
    ELSE IF field \in NUMERIC_FIELDS /\ ~PyInt(values[k]).ok
         THEN PyInt(values[k])
         ELSE InValues(field, values, k + 1)

\* lower <= user[field] <= upper, once both bounds are evaluated
BetweenResult(user, field, lower, upper) ==
    IF ~lower.ok THEN AddAtoms(lower, 1)
    ELSE IF ~upper.ok THEN AddAtoms(upper, 1)
    ELSE IF field \notin Keys(user) THEN RaiseKey(field, 1)
    ELSE IF ~Ordered(IntV(lower.val), Get(user, field))
         THEN Raise("TypeError", "not supported between instances", 1)
    ELSE Ok(/\ ~PyLess(Get(user, field), IntV(lower.val))
            /\ ~PyLess(IntV(upper.val), Get(user, field)), 1)

\* the BETWEEN branch
BetweenBranch(user, m) ==
    BetweenResult(user, m.g1, eval_expression(Strip(m.g2)),
                  eval_expression(Strip(m.g3)))

\* user[field] in values, once the values are converted (conv)
InResult(user, field, texts, conv) ==
    IF ~conv.ok THEN AddAtoms(conv, 1)
    ELSE IF field \notin Keys(user) THEN RaiseKey(field, 1)
    ELSE Ok(\E k \in 1..Len(texts) :
                PyEq(Get(user, field),
                     IF field \in NUMERIC_FIELDS
                     THEN IntV(PyInt(texts[k]).val)
                     ELSE StrV(texts[k])), 1)

\* [v.strip().strip("'\"") for v in parts]
ValueTexts(parts) == [k \in 1..Len(parts) |-> StripQuotes(Strip(parts[k]))]

\* the conversion of the values, then the membership test
InConverted(user, field, texts) ==
    InResult(user, field, texts, InValues(field, texts, 1))

\* the IN branch
InBranch(user, m) ==
    InConverted(user, m.g1, ValueTexts(SplitComma(m.g2, 1, 1)))

\* the LIKE branch
LikeBranch(user, m) ==
    IF m.g1 \notin Keys(user) THEN RaiseKey(m.g1, 1)
    ELSE Ok(Glob(m.g2, StrOf(Get(user, m.g1))), 1)

\* the comparison with a numeric right-hand side, once it is evaluated (num)
NumericResult(user, m, num) ==
    IF ~num.ok THEN AddAtoms(num, 1)
    ELSE Compare(Get(user, m.g1), m.g2, IntV(num.val), 1)

\* the comparison with the right-hand side value_expr
ComparisonResult(user, m, value_expr) ==
    IF m.g1 \notin Keys(user) THEN RaiseKey(m.g1, 1)
    ELSE IF value_expr[1] \in {"'", "\""}
         THEN Compare(Get(user, m.g1), m.g2, StrV(StripQuotes(value_expr)), 1)
    ELSE NumericResult(user, m, eval_expression(value_expr))

\* the branch of the standard comparison operators
ComparisonBranch(user, m) == ComparisonResult(user, m, Strip(m.g3))

\* the patterns in the order parse_comparison tries them: b, n, l and m are
\* the matches of the BETWEEN, IN, LIKE and comparison patterns
Dispatch(user, b, n, l, m) ==
    IF b.ok THEN BetweenBranch(user, b)
    ELSE IF n.ok THEN InBranch(user, n)
    ELSE IF l.ok THEN LikeBranch(user, l)
    ELSE IF m.ok THEN ComparisonBranch(user, m)
    ELSE Raise("ValueError", "Invalid condition format", 1)

\* parse_comparison on the stripped text c
Atom(user, c, now) ==
    IF OuterParens(c)
    THEN AddAtoms(evaluate_condition(user, Slice(c, 2, Len(c) - 1), now), 1)
    ELSE Dispatch(user, BetweenMatch(c), InMatch(c), LikeMatch(c),
                  ComparisonMatch(c))

parse_comparison(user, condition, now) == Atom(user, Strip(condition), now)

\* re.match(r'\bnot\b\s+(.+)', c, flags=re.IGNORECASE) : start of the group, else 0
NotMatch(c) ==
    IF /\ KeywordAt(c, 1, KW_not)
       /\ SpaceRun(c, Len(KW_not) + 1) >= 1
       /\ Len(KW_not) + SpaceRun(c, Len(KW_not) + 1) + 1 <= Len(c)
    THEN Len(KW_not) + SpaceRun(c, Len(KW_not) + 1) + 1
    ELSE 0

\* not r
Negation(r) == IF r.ok THEN [r EXCEPT !.val = ~r.val] ELSE r

\* parse_not_expression on the stripped text c, g being the start of the
\* group of the NOT pattern, 0 when the pattern does not match
NotBranch(user, c, g, now) ==
    IF g # 0 THEN Negation(parse_comparison(user, Strip(From(c, g)), now))
    ELSE parse_comparison(user, c, now)

parse_not_expression(user, condition, now) ==
    NotBranch(user, Strip(condition), NotMatch(Strip(condition)), now)

\* all() after the k-th part gave r: it stops at a False or an exception
AllStep(r, user, parts, k, now) ==
    IF ~r.ok \/ ~r.val \/ k = Len(parts) THEN r
    ELSE AddAtoms(AllPart(user, parts, k + 1, now), r.atoms)

\* all(parse_not_expression(user, part.strip()) for part in and_parts), from
\* the k-th part on
AllPart(user, parts, k, now) ==
    AllStep(parse_not_expression(user, Strip(parts[k]), now), user, parts, k,
            now)

\* parse_and_expression, and_parts being the parts of the split
AndBranch(user, condition, and_parts, now) ==
    IF Len(and_parts) > 1 THEN AllPart(user, and_parts, 1, now)
    ELSE parse_not_expression(user, condition, now)

parse_and_expression(user, condition, now) ==
    AndBranch(user, condition, SplitKeyword(condition, KW_and), now)

\* any() after the k-th part gave r: it stops at a True or an exception
AnyStep(r, user, parts, k, now) ==
    IF ~r.ok \/ r.val \/ k = Len(parts) THEN r
    ELSE AddAtoms(AnyPart(user, parts, k + 1, now), r.atoms)

\* any(parse_and_expression(user, part.strip()) for part in or_parts), from
\* the k-th part on
AnyPart(user, parts, k, now) ==
    AnyStep(parse_and_expression(user, Strip(parts[k]), now), user, parts, k,
            now)

\* parse_or_expression, or_parts being the parts of the split
OrBranch(user, condition, or_parts, now) ==
    IF Len(or_parts) > 1 THEN AnyPart(user, or_parts, 1, now)
    ELSE parse_and_expression(user, condition, now)

parse_or_expression(user, condition, now) ==
    OrBranch(user, condition, SplitKeyword(condition, KW_or), now)

\* the outcome when the field check is made only after the rule was parsed,
\* r being the outcome of the parse
LateFieldCheck(c, r) ==
    IF validate_sql_syntax(c) # ""
    THEN Raise("ValueError", "Invalid SQL syntax", 0)
    ELSE IF ~r.ok THEN r
    ELSE IF extract_fields_from_condition(c) \ VALID_FIELDS # {}
         THEN RaiseFields(extract_fields_from_condition(c) \ VALID_FIELDS)
    ELSE r

\* the checks of evaluate_condition with the field check made too late
CheckedLate(user, c, now) ==
    LateFieldCheck(c, parse_or_expression(user, c, now))

\* the checks of evaluate_condition on the text c, in which _now() is
\* replaced, then the evaluation
Checked(user, c, now) ==
    IF validate_sql_syntax(c) # ""
    THEN Raise("ValueError", "Invalid SQL syntax", 0)
    ELSE IF extract_fields_from_condition(c) \ VALID_FIELDS # {}
         THEN RaiseFields(extract_fields_from_condition(c) \ VALID_FIELDS)
    ELSE parse_or_expression(user, c, now)

evaluate_condition(user, condition, now) ==
    Checked(user, SubNow(condition, Str(now), 1), now)

(***************************************************************************)
(* Rule texts of the requests of the model                                 *)
(***************************************************************************)
\* level>1 and (country='US' or country='CA')
R_nested ==
    <<"l", "e", "v", "e", "l", ">", "1", " ", "a", "n", "d", " ", "(", "c",
      "o", "u", "n", "t", "r", "y", "=", "'", "U", "S", "'", " ", "o", "r",
      " ", "c", "o", "u", "n", "t", "r", "y", "=", "'", "C", "A", "'", ")">>

\* (level>1) or (level<1)
R_nested_or ==
    <<"(", "l", "e", "v", "e", "l", ">", "1", ")", " ", "o", "r", " ", "(",
      "l", "e", "v", "e", "l", "<", "1", ")">>

\* level>=3 and country in ('US','CA')
R_and_in ==
    <<"l", "e", "v", "e", "l", ">", "=", "3", " ", "a", "n", "d", " ", "c",
      "o", "u", "n", "t", "r", "y", " ", "i", "n", " ", "(", "'", "U", "S",
      "'", ",", "'", "C", "A", "'", ")">>

\* country = 'a or b'
R_quoted_or ==
    <<"c", "o", "u", "n", "t", "r", "y", " ", "=", " ", "'", "a", " ", "o",
      "r", " ", "b", "'">>

\* level>=0
R_true ==
    <<"l", "e", "v", "e", "l", ">", "=", "0">>

\* level>1
R_gt ==
    <<"l", "e", "v", "e", "l", ">", "1">>

\* not level>1
R_not ==
    <<"n", "o", "t", " ", "l", "e", "v", "e", "l", ">", "1">>

\* not not level>1
R_not_not ==
    <<"n", "o", "t", " ", "n", "o", "t", " ", "l", "e", "v", "e", "l", ">",
      "1">>

\* not (level>1)
R_not_paren ==
    <<"n", "o", "t", " ", "(", "l", "e", "v", "e", "l", ">", "1", ")">>

\* level between 5 and 5
R_between_eq ==
    <<"l", "e", "v", "e", "l", " ", "b", "e", "t", "w", "e", "e", "n", " ",
      "5", " ", "a", "n", "d", " ", "5">>

\* level BETWEEN 5 AND 5
R_between_upper ==
    <<"l", "e", "v", "e", "l", " ", "B", "E", "T", "W", "E", "E", "N", " ",
      "5", " ", "A", "N", "D", " ", "5">>

\* purchase_amount between 100 and 200
R_between_amount ==
    <<"p", "u", "r", "c", "h", "a", "s", "e", "_", "a", "m", "o", "u", "n",
      "t", " ", "b", "e", "t", "w", "e", "e", "n", " ", "1", "0", "0", " ",
      "a", "n", "d", " ", "2", "0", "0">>

\* level in ()
R_in_empty ==
    <<"l", "e", "v", "e", "l", " ", "i", "n", " ", "(", ")">>

\* level in ( )
R_in_blank ==
    <<"l", "e", "v", "e", "l", " ", "i", "n", " ", "(", " ", ")">>

\* level in (1, 5)
R_in_num ==
    <<"l", "e", "v", "e", "l", " ", "i", "n", " ", "(", "1", ",", " ", "5",
      ")">>

\* level in (7)
R_in_miss ==
    <<"l", "e", "v", "e", "l", " ", "i", "n", " ", "(", "7", ")">>

\* country in ('US','CA')
R_in_str ==
    <<"c", "o", "u", "n", "t", "r", "y", " ", "i", "n", " ", "(", "'", "U",
      "S", "'", ",", "'", "C", "A", "'", ")">>

\* country like 'U_'
R_like ==
    <<"c", "o", "u", "n", "t", "r", "y", " ", "l", "i", "k", "e", " ", "'",
      "U", "_", "'">>

\* country like 'US%'
R_like_pct ==
    <<"c", "o", "u", "n", "t", "r", "y", " ", "l", "i", "k", "e", " ", "'",
      "U", "S", "%", "'">>

\* country = 5
R_str_eq_num ==
    <<"c", "o", "u", "n", "t", "r", "y", " ", "=", " ", "5">>

\* country != 5
R_str_ne_num ==
    <<"c", "o", "u", "n", "t", "r", "y", " ", "!", "=", " ", "5">>

\* country < 5
R_str_lt_num ==
    <<"c", "o", "u", "n", "t", "r", "y", " ", "<", " ", "5">>

\* country >= 5
R_str_ge_num ==
    <<"c", "o", "u", "n", "t", "r", "y", " ", ">", "=", " ", "5">>

\* level = 'US'
R_num_eq_str ==
    <<"l", "e", "v", "e", "l", " ", "=", " ", "'", "U", "S", "'">>

\* level != 'US'
R_num_ne_str ==
    <<"l", "e", "v", "e", "l", " ", "!", "=", " ", "'", "U", "S", "'">>

\* level > 'US'
R_num_gt_str ==
    <<"l", "e", "v", "e", "l", " ", ">", " ", "'", "U", "S", "'">>

\* level <= 'US'
R_num_le_str ==
    <<"l", "e", "v", "e", "l", " ", "<", "=", " ", "'", "U", "S", "'">>

\* country = 'US'
R_str_eq ==
    <<"c", "o", "u", "n", "t", "r", "y", " ", "=", " ", "'", "U", "S", "'">>

\* 1 = 1
R_one ==
    <<"1", " ", "=", " ", "1">>

\* level > 1/0
R_div_zero ==
    <<"l", "e", "v", "e", "l", " ", ">", " ", "1", "/", "0">>

\* level > (1+1)*2 - 7/2
R_arith ==
    <<"l", "e", "v", "e", "l", " ", ">", " ", "(", "1", "+", "1", ")", "*",
      "2", " ", "-", " ", "7", "/", "2">>

\* level >< 1
R_bad_op ==
    <<"l", "e", "v", "e", "l", " ", ">", "<", " ", "1">>

\* bogus_field > 1
R_bogus ==
    <<"b", "o", "g", "u", "s", "_", "f", "i", "e", "l", "d", " ", ">", " ",
      "1">>

\* level >= 0 or bogus = 2
R_bogus_or ==
    <<"l", "e", "v", "e", "l", " ", ">", "=", " ", "0", " ", "o", "r", " ",
      "b", "o", "g", "u", "s", " ", "=", " ", "2">>

\* level > 9 and bogus = 2
R_bogus_and ==
    <<"l", "e", "v", "e", "l", " ", ">", " ", "9", " ", "a", "n", "d", " ",
      "b", "o", "g", "u", "s", " ", "=", " ", "2">>

\* (bogus > 1
R_bogus_paren ==
    <<"(", "b", "o", "g", "u", "s", " ", ">", " ", "1">>

\* level >= 0 or bogus >< 2
R_bogus_op ==
    <<"l", "e", "v", "e", "l", " ", ">", "=", " ", "0", " ", "o", "r", " ",
      "b", "o", "g", "u", "s", " ", ">", "<", " ", "2">>

\* last_session < _now()
R_now ==
    <<"l", "a", "s", "t", "_", "s", "e", "s", "s", "i", "o", "n", " ", "<",
      " ", "_", "n", "o", "w", "(", ")">>

\* first_session >= _now() - 1
R_now_minus ==
    <<"f", "i", "r", "s", "t", "_", "s", "e", "s", "s", "i", "o", "n", " ",
      ">", "=", " ", "_", "n", "o", "w", "(", ")", " ", "-", " ", "1">>

\* (the empty text)
R_empty ==
    <<>>

(***************************************************************************)
(* User documents of the requests of the model                             *)
(***************************************************************************)
Doc(id, level, country, first, last, amount, purchased) ==
    << [k |-> F_id, v |-> id], [k |-> F_level, v |-> level],
       [k |-> F_country, v |-> country],
       [k |-> F_first_session, v |-> first],
       [k |-> F_last_session, v |-> last],
       [k |-> F_purchase_amount, v |-> amount],
       [k |-> F_last_purchase_at, v |-> purchased] >>

\* the document with the value of one key replaced
With(doc, key, val) ==
    [j \in 1..Len(doc) |-> IF doc[j].k = key THEN [k |-> key, v |-> val]
                                             ELSE doc[j]]

\* the document without one key
Without(doc, key) == SelectSeq(doc, LAMBDA e : e.k # key)

F_extra == <<"e", "x", "t", "r", "a">>

U_us ==
    Doc(StrV(<<"u", "1">>), IntV(5), StrV(<<"U", "S">>), IntV(100), IntV(200),
        IntV(50), IntV(150))

U_ca ==
    Doc(StrV(<<"u", "2">>), IntV(1), StrV(<<"C", "A">>), IntV(0), IntV(1),
        IntV(150), IntV(1))

U_fr ==
    Doc(StrV(<<"u", "3">>), IntV(7), StrV(<<"F", "R">>), IntV(2), IntV(2),
        IntV(0), IntV(0))

\* documents that hold the seven fields with values of the documented types
TypedUsers == {U_us, U_ca, U_fr}

\* documents with one defect, or one oddity, each
OddUsers ==
    { Without(U_us, F_level),
      With(U_us, F_country, NullV),
      With(U_us, F_level, BoolV(TRUE)),
      With(U_ca, F_last_session, FloatV(1)),
      With(U_us, F_level, IntV(0 - 1)),
      With(U_us, F_level, StrV(<<"5">>)),
      With(U_us, F_id, StrV(<<>>)),
      With(U_us, F_id, IntV(3)),
      Append(U_us, [k |-> F_extra, v |-> NullV]),
      Append(U_ca, [k |-> F_extra, v |-> IntV(3)]) }

Users == TypedUsers \cup OddUsers

(***************************************************************************)
(* Requests                                                                *)
(***************************************************************************)
MaxSegs == 2

MaxClock == 2

SegNames == <<"s1", "s2", "s3", "s4">>

NoSegment == "none"

\* rules of the requests with several segments: one per kind of outcome
FacadeRules ==
    {R_true, R_gt, R_now, R_now_minus, R_bad_op, R_bogus, R_div_zero, R_one,
     R_str_lt_num, R_in_empty}

\* rules of the requests with one segment
AllRules ==
    {R_nested, R_nested_or, R_and_in, R_quoted_or, R_true, R_gt, R_not,
     R_not_not, R_not_paren, R_between_eq, R_between_upper, R_between_amount,
     R_in_empty, R_in_blank, R_in_num, R_in_miss, R_in_str, R_like,
     R_like_pct, R_str_eq_num, R_str_ne_num, R_str_lt_num, R_str_ge_num,
     R_num_eq_str, R_num_ne_str, R_num_gt_str, R_num_le_str, R_str_eq, R_one,
     R_div_zero, R_arith, R_bad_op, R_bogus, R_bogus_or, R_bogus_and,
     R_bogus_paren, R_bogus_op, R_now, R_now_minus, R_empty}

\* the ordered mappings of at most n segment names to rules of the pool
SegLists(pool, n) ==
    UNION {{[j \in 1..k |-> [name |-> SegNames[j], rule |-> f[j]]] :
               f \in [1..k -> pool]} : k \in 0..n}

\* the decoded body of a request: json is FALSE when get_json() returns None
Body(u, segs) ==
    [json |-> TRUE, keys |-> {"user", "segments"}, user |-> u, segments |-> segs]

Requests ==
    {Body(u, segs) : u \in Users, segs \in SegLists(FacadeRules, MaxSegs)}
      \cup {Body(u, segs) : u \in TypedUsers, segs \in SegLists(AllRules, 1)}
      \cup {[Body(U_us, <<>>) EXCEPT !.json = FALSE],
            [Body(U_us, <<>>) EXCEPT !.keys = {"segments"}],
            [Body(U_us, <<>>) EXCEPT !.keys = {"user"}]}

(***************************************************************************)
(* The request handler evaluate_segments                                   *)
(***************************************************************************)
VARIABLES
    data,       \* the decoded body of the request
    clock,      \* the wall clock, in seconds
    pc,         \* position of the handler: "receive", "validate", "loop", "done"
    user,       \* the local user
    segments,   \* the local segments
    i,          \* number of segments the loop has taken
    results,    \* the local results: segment name -> boolean
    response,   \* the response returned, kind "none" until then
    calls       \* history: the calls of evaluate_condition the loop has made

vars == <<data, clock, pc, user, segments, i, results, response, calls>>

NoError == [text |-> "", segment |-> NoSegment, detail |-> "", field |-> NoField]

NoResponse ==
    [kind |-> "none", status |-> 0, results |-> <<>>, error |-> NoError]

\* jsonify({"error": ...}), 400
ErrorResponse(text, segment, detail, field) ==
    [kind |-> "error", status |-> 400, results |-> <<>>,
     error |-> [text |-> text, segment |-> segment, detail |-> detail,
                field |-> field]]

\* jsonify({"results": results})
ResultsResponse(res) ==
    [kind |-> "results", status |-> 200, results |-> res, error |-> NoError]

Init ==
    /\ data \in Requests
    /\ clock = 0
    /\ pc = "receive"
    /\ user = <<>>
    /\ segments = <<>>
    /\ i = 0
    /\ results = <<>>
    /\ response = NoResponse
    /\ calls = <<>>

\* time passes while the request is handled
Tick ==
    /\ pc # "done"
    /\ clock < MaxClock
    /\ clock' = clock + 1
    /\ UNCHANGED <<data, pc, user, segments, i, results, response, calls>>

\* get_json() and the checks of the top-level fields
Receive ==
    /\ pc = "receive"
    /\ IF ~data.json
       THEN /\ response' = ErrorResponse("Invalid JSON", NoSegment, "", NoField)
            /\ pc' = "done"
            /\ UNCHANGED <<user, segments>>
       ELSE IF "user" \notin data.keys
       THEN /\ response' = ErrorResponse("Missing 'user' field", NoSegment, "",
                                         NoField)
            /\ pc' = "done"
            /\ UNCHANGED <<user, segments>>
       ELSE IF "segments" \notin data.keys
       THEN /\ response' = ErrorResponse("Missing 'segments' field", NoSegment,
                                         "", NoField)
            /\ pc' = "done"
            /\ UNCHANGED <<user, segments>>
       ELSE /\ user' = data.user
            /\ segments' = data.segments
            /\ pc' = "validate"
            /\ UNCHANGED response
    /\ UNCHANGED <<data, clock, i, results, calls>>

\* validate_user_document(user) and the except clause around it
Validate ==
    /\ pc = "validate"
    /\ LET v == validate_user_document(user)
       IN  IF v.ok
           THEN /\ pc' = "loop"
                /\ UNCHANGED response
           ELSE /\ response' = ErrorResponse(v.msg, NoSegment, "", v.field)
                /\ pc' = "done"
    /\ UNCHANGED <<data, clock, user, segments, i, results, calls>>

\* the response of the except clause that catches the exception of outcome out
SegmentError(segment_name, out) ==
    IF out.exc = "ValueError"
    THEN ErrorResponse("Error in segment", segment_name, out.msg, NoField)
    ELSE IF out.exc = "KeyError"
    THEN ErrorResponse("Field not found in user document", NoSegment, "",
                       CHOOSE f \in out.fields : TRUE)
    ELSE ErrorResponse("Error evaluating segment", segment_name, out.msg,
                       NoField)

\* the body of the loop for the segment seg, out being the outcome of
\* evaluate_condition(user, rule), with a failing segment skipped
SegmentSkipped(seg, out) ==
    /\ calls' = Append(calls, [seg |-> i + 1, now |-> clock, out |-> out])
    /\ i' = i + 1
    /\ results' = IF out.ok THEN (seg.name :> out.val) @@ results ELSE results
    /\ UNCHANGED <<pc, response>>

\* the body of the loop for the segment seg, out being the outcome of
\* evaluate_condition(user, rule)
SegmentDone(seg, out) ==
    /\ calls' = Append(calls, [seg |-> i + 1, now |-> clock, out |-> out])
    /\ i' = i + 1
    /\ IF out.ok
       THEN /\ results' = (seg.name :> out.val) @@ results
            /\ UNCHANGED <<pc, response>>
       ELSE /\ response' = SegmentError(seg.name, out)
            /\ pc' = "done"
            /\ UNCHANGED results

\* one iteration of the loop over segments.items()
EvalSegment ==
    /\ pc = "loop"
    /\ i < Len(segments)
    /\ SegmentDone(segments[i + 1],
                   evaluate_condition(user, segments[i + 1].rule, clock))
    /\ UNCHANGED <<data, clock, user, segments>>

\* the return after the loop
Return ==
    /\ pc = "loop"
    /\ i = Len(segments)
    /\ response' = ResultsResponse(results)
    /\ pc' = "done"
    /\ UNCHANGED <<data, clock, user, segments, i, results, calls>>

Next == Tick \/ Receive \/ Validate \/ EvalSegment \/ Return

Spec == Init /\ [][Next]_vars

(***************************************************************************)
(* Properties                                                              *)
(***************************************************************************)
\* the rule of the k-th call of evaluate_condition made by the loop
RuleOf(k) == segments[calls[k].seg].rule

\* the rule, evaluated by the k-th call, is one of rs
Called(k, rs) == k \in 1..Len(calls) /\ RuleOf(k) \in rs

\* the integer stored in a numeric field of the validated user
Field(f) == AsInt(Get(user, f))

\* the text stored in the field country of the validated user
Country == Get(user, F_country).v

\* the record holds the documented types: text in id and country, integers
\* (not booleans) in the five numeric fields
Typed(doc) ==
    /\ \A f \in STRING_FIELDS : f \in Keys(doc) /\ Get(doc, f).t = "str"
    /\ \A f \in NUMERIC_FIELDS : f \in Keys(doc) /\ Get(doc, f).t = "int"

\* the request carries a user and segments
WellFormed == data.json /\ data.keys = {"user", "segments"}

\* C1: for every valid record, the rule level>1 and (country='US' or
\* country='CA') evaluates without error to A and (B or C), and the rule
\* country = 'a or b', whose only "or" stands inside a string literal, is
\* evaluated as one comparison: keywords at depth > 0 or inside a literal
\* are not split points.
C1_DepthAwareSplit ==
    \A k \in 1..Len(calls) :
        /\ Called(k, {R_nested}) =>
              /\ calls[k].out.ok
              /\ calls[k].out.val =
                    (/\ Field(F_level) > 1
                     /\ Country \in {<<"U", "S">>, <<"C", "A">>})
        /\ Called(k, {R_quoted_or}) =>
              /\ calls[k].out.ok
              /\ calls[k].out.val =
                    (Country = <<"a", " ", "o", "r", " ", "b">>)

\* C2: the response holds a results mapping iff the user passed
\* validate_user_document and every segment was evaluated without error,
\* and then the mapping holds one boolean per segment name; otherwise the
\* response is one error without results, no segment after the first
\* failing one was evaluated, and none at all when validation failed.
C2_AllOrNothing ==
    pc = "done" =>
        LET passed == WellFormed /\ validate_user_document(data.user).ok
            names == {data.segments[k].name : k \in 1..Len(data.segments)}
            allOk == /\ Len(calls) = Len(data.segments)
                     /\ \A k \in 1..Len(calls) : calls[k].out.ok
        IN  /\ (response.kind = "results") <=> (passed /\ allOk)
            /\ response.kind = "results" =>
                  /\ response.status = 200
                  /\ DOMAIN response.results = names
                  /\ \A k \in 1..Len(calls) :
                        /\ response.results[data.segments[k].name] \in BOOLEAN
                        /\ response.results[data.segments[k].name]
                              = calls[k].out.val
            /\ response.kind # "results" =>
                  /\ response.kind = "error"
                  /\ response.status = 400
                  /\ response.error.text # ""
                  /\ DOMAIN response.results = {}
            /\ ~passed => calls = <<>>
            /\ \A k \in 1..Len(calls) :
                  /\ calls[k].seg = k
                  /\ k < Len(calls) => calls[k].out.ok

\* C2 witness: the first of two segments was evaluated to a boolean, the
\* second failed, and the response is an error without results.
C2_Witness ==
    /\ pc = "done"
    /\ Len(segments) = 2
    /\ Len(calls) = 2
    /\ calls[1].out.ok
    /\ ~calls[2].out.ok
    /\ DOMAIN results = {"s1"}
    /\ response.kind = "error"
    /\ DOMAIN response.results = {}

\* the rule text holds the token _now()
HasNow(rule) == \E p \in 1..Len(rule) : MatchAt(rule, p, NowToken, FALSE)

\* C3: every _now() of every segment of one request is replaced by the
\* same timestamp, however the clock advances while the request is handled.
C3_SingleNow ==
    \A j, k \in 1..Len(calls) :
        HasNow(RuleOf(j)) /\ HasNow(RuleOf(k)) => calls[j].now = calls[k].now

\* the raw record the claim C4 accepts: the seven fields present, no null
\* value, id and country non-empty text, the numeric fields integers >= 0
Acceptable(doc) ==
    /\ \A j \in 1..Len(required_fields) : required_fields[j] \in Keys(doc)
    /\ \A j \in 1..Len(doc) : doc[j].v.t # "null"
    /\ \A f \in STRING_FIELDS : Get(doc, f).t = "str" /\ Get(doc, f).v # <<>>
    /\ \A f \in NUMERIC_FIELDS : Get(doc, f).t = "int" /\ Get(doc, f).v >= 0

\* C4: validation accepts a raw record iff it is acceptable in the sense
\* above; a boolean or a float in a numeric field is rejected, so no rule
\* is evaluated against a record with a non-integer numeric field.
C4_ValidationIffTyped ==
    /\ pc = "loop" => Acceptable(user)
    /\ (pc = "done" /\ WellFormed /\ Acceptable(user)) =>
          response.error.text \notin
              {"Missing required field", "cannot be null", "must be a string",
               "cannot be empty", "must be an integer", "must be non-negative"}
    /\ \A k \in 1..Len(calls) :
          \A f \in NUMERIC_FIELDS : Get(user, f).t = "int"

\* the position p of s lies inside a single-quoted literal
InLiteral(s, p) ==
    /\ Cardinality({q \in 1..(p - 1) : s[q] = "'"}) % 2 = 1
    /\ \E q \in (p + 1)..Len(s) : s[q] = "'"

\* the position p of s is an end of the text, a blank or an operator character
Delimiter(s, p) ==
    p < 1 \/ p > Len(s) \/ IsSpace(s[p]) \/ s[p] \in OperatorChars

\* the identifiers of a text that stand outside single-quoted literals,
\* between delimiters, and are neither keywords nor one of the seven fields
UnknownTokens(s) ==
    LET Tok(a) == SubSeq(s, a, a + WordRun(s, a) - 1)
        starts == {a \in 1..Len(s) :
                      /\ IsWord(s[a])
                      /\ Delimiter(s, a - 1)
                      /\ Delimiter(s, a + WordRun(s, a))
                      /\ ~InLiteral(s, a)}
    IN  {tok \in {Tok(a) : a \in starts} :
            /\ IsIdentifier(tok)
            /\ [j \in 1..Len(tok) |-> Lower(tok[j])]
                  \notin {sql_keywords[j] : j \in 1..Len(sql_keywords)}
            /\ tok \notin VALID_FIELDS}

\* the text of the rule of the k-th call, with _now() replaced
TextOf(k) == SubNow(RuleOf(k), Str(calls[k].now), 1)

\* the outcome is the unknown-field error that lists toks, raised before
\* any atom was evaluated
UnknownFieldError(out, toks) ==
    /\ ~out.ok
    /\ out.exc = "ValueError"
    /\ out.msg = "Unknown fields in segment rule"
    /\ toks \subseteq out.fields
    /\ out.atoms = 0

\* C5 as stated: every rule that holds an unknown field token fails with
\* the unknown-field error listing it, before any atom is evaluated.
C5_UnknownFieldAlways ==
    \A k \in 1..Len(calls) :
        UnknownTokens(TextOf(k)) # {} =>
            UnknownFieldError(calls[k].out, UnknownTokens(TextOf(k)))

\* C5 amended: every rule that passes validate_sql_syntax and holds an
\* unknown field token fails with the unknown-field error listing it,
\* before any atom is evaluated, wherever the token stands and whatever the
\* other sub-expressions evaluate to; a rule with such a token that fails
\* validate_sql_syntax fails with the syntax error, also before any atom
\* is evaluated.
C5_UnknownFieldAfterSyntax ==
    \A k \in 1..Len(calls) :
        UnknownTokens(TextOf(k)) # {} =>
            IF validate_sql_syntax(TextOf(k)) = ""
            THEN UnknownFieldError(calls[k].out, UnknownTokens(TextOf(k)))
            ELSE /\ ~calls[k].out.ok
                 /\ calls[k].out.exc = "ValueError"
                 /\ calls[k].out.msg = "Invalid SQL syntax"
                 /\ calls[k].out.atoms = 0

\* C5 witness: the unknown token stands after an "or" whose left side is
\* true for the record, and the call failed with the unknown-field error.
C5_Witness ==
    \E k \in 1..Len(calls) :
        /\ RuleOf(k) = R_bogus_or
        /\ Field(F_level) >= 0
        /\ calls[k].out.msg = "Unknown fields in segment rule"
        /\ calls[k].out.fields = {<<"b", "o", "g", "u", "s">>}
        /\ calls[k].out.atoms = 0

\* C6: f between lo and hi evaluates without error to lo <= record[f] <= hi.
C6_BetweenInclusive ==
    \A k \in 1..Len(calls) :
        /\ Called(k, {R_between_eq, R_between_upper}) =>
              /\ calls[k].out.ok
              /\ calls[k].out.val = (Field(F_level) = 5)
        /\ Called(k, {R_between_amount}) =>
              /\ calls[k].out.ok
              /\ calls[k].out.val = (/\ 100 <= Field(F_purchase_amount)
                                     /\ Field(F_purchase_amount) <= 200)

\* C7: not not expr evaluates without error to the value of expr; here
\* expr is level>1, which evaluates to a boolean for every valid record.
C7_DoubleNegation ==
    \A k \in 1..Len(calls) :
        Called(k, {R_not_not}) =>
            /\ evaluate_condition(user, R_gt, calls[k].now).ok
            /\ calls[k].out.ok
            /\ calls[k].out.val = evaluate_condition(user, R_gt, calls[k].now).val

\* the rules that compare a text field with a number or a numeric field
\* with a quoted string
MixedRules ==
    {R_str_eq_num, R_str_ne_num, R_str_lt_num, R_str_ge_num, R_num_eq_str,
     R_num_ne_str, R_num_gt_str, R_num_le_str}

\* C8: a mixed-type comparison fails and never yields a boolean.
C8_MixedTypeFails ==
    \A k \in 1..Len(calls) :
        (Called(k, MixedRules) /\ Typed(user)) => ~calls[k].out.ok

\* C9: an IN rule on a recognized field never raises; it is true iff the
\* field equals a listed value and false for an empty list.
C9_InNeverRaises ==
    \A k \in 1..Len(calls) :
        /\ Called(k, {R_in_empty, R_in_blank}) =>
              calls[k].out.ok /\ ~calls[k].out.val
        /\ Called(k, {R_in_num}) =>
              calls[k].out.ok /\ calls[k].out.val = (Field(F_level) \in {1, 5})
        /\ Called(k, {R_in_miss}) =>
              calls[k].out.ok /\ calls[k].out.val = (Field(F_level) = 7)
        /\ Called(k, {R_in_str}) =>
              /\ calls[k].out.ok
              /\ calls[k].out.val = (Country \in {<<"U", "S">>, <<"C", "A">>})

\* C10: an error reported for a failure of a segment's rule names that
\* segment, which is the first one in order whose rule fails.
C10_ErrorNamesSegment ==
    (pc = "done" /\ calls # <<>> /\ ~calls[Len(calls)].out.ok) =>
        /\ response.kind = "error"
        /\ response.error.segment = segments[Len(calls)].name
        /\ \A k \in 1..(Len(calls) - 1) : calls[k].out.ok

=============================================================================
